---------------------------- MODULE Spec2Model ----------------------------
(***************************************************************************)
(* Model of simple_menu: the Menu / Section tree of AbstractMenuBuilder    *)
(* and the navigation state machine of MenuHandler.                        *)
(*                                                                         *)
(* Python values are modelled as follows.                                  *)
(*   - a value that may be None (every field of a Menu or a Section, the   *)
(*     callback registry, a callback's result) is a sequence of length 0   *)
(*     or 1: None is << >>, a present value x is << x >>;                  *)
(*   - a tuple of sections is a sequence; Python's 0-based index i is the  *)
(*     TLA+ index i + 1;                                                   *)
(*   - a namedtuple is a record with the same field names;                 *)
(*   - a zero-argument callback is modelled by the value it returns (a     *)
(*     string or None);                                                    *)
(*   - the outcome of a call is a record: the exception raised (if any),   *)
(*     the value returned and the callbacks invoked during the call.       *)
(*                                                                         *)
(* menu, callbacks and current_location are the fields of one handler.     *)
(* last, prev, runStart, runLen and scenario record the calls made on it.  *)
(* other_location is the deque of a second handler constructed over the    *)
(* same Menu, and alone holds, for each of the two handlers, the path its  *)
(* own calls would have produced had the other handler not existed.        *)
(*                                                                         *)
(* source, dynamic and built belong to PropertiesMenuBuilder.build: what   *)
(* the parser yields for the properties file (the groups in file order,    *)
(* each with its options in order), the dynamic_sections_by_opt_name       *)
(* argument, and the outcome of build() once it has run. In the builder a  *)
(* string is the sequence of its pieces, so that it can be split at the    *)
(* separator and concatenated: "a1.label" is << "a", "1", ".", "label" >>. *)
(***************************************************************************)
EXTENDS Integers, Sequences, FiniteSets, TLC

VARIABLES menu, callbacks, current_location, last, prev, runStart, runLen,
          scenario, other_location, alone, source, dynamic, built

vars == << menu, callbacks, current_location, last, prev, runStart, runLen,
           scenario, other_location, alone, source, dynamic, built >>

\* The variables of the handlers and those of the builder.
handlerVars == << menu, callbacks, current_location, last, prev, runStart, runLen,
                  scenario, other_location, alone >>

builderVars == << source, dynamic, built >>

\* Longest run of consecutive next() calls that is tracked from one start.
MaxRun == 4

\* Largest number of options in the first group of a properties file.
MaxItems == 2

---------------------------------------------------------------------------
(* Optional values *)

None == << >>

Some(x) == << x >>

Get(o) == o[1]

---------------------------------------------------------------------------
(* AbstractMenuBuilder.Menu and AbstractMenuBuilder.Section *)

Menu(sections, callback) == [sections |-> sections, callback |-> callback]

Section(name, label, callback, sections) ==
    [name |-> name, label |-> label, callback |-> callback, sections |-> sections]

---------------------------------------------------------------------------
(* The menus and callback registries handlers are constructed with *)

\* The sample menu of the MenuHandler class contract, every node carrying a
\* label and a callback identifier.
SampleMenu ==
    Menu(Some(<<
            Section("A", Some("Label A"), Some("cb_A"), Some(<<
                Section("A.a", Some("Label A.a"), Some("cb_A.a"), None),
                Section("A.b", Some("Label A.b"), Some("cb_A.b"), None) >>)),
            Section("B", Some("Label B"), Some("cb_B"), Some(<<
                Section("B.a", Some("Label B.a"), Some("cb_B.a"), Some(<<
                    Section("B.a.a", Some("Label B.a.a"), Some("cb_B.a.a"), None) >>)) >>)) >>),
         Some("cb_menu"))

\* A menu whose only top-level section is a leaf.
SingleLeafMenu ==
    Menu(Some(<< Section("X", Some("Label X"), Some("cb_X"), None) >>), Some("cb_menu"))

\* Three top-level sections: a leaf, a branch with three leaves, a leaf.
WideMenu ==
    Menu(Some(<<
            Section("P", Some("Label P"), Some("cb_P"), None),
            Section("Q", Some("Label Q"), Some("cb_Q"), Some(<<
                Section("Q.a", Some("Label Q.a"), Some("cb_Q.a"), None),
                Section("Q.b", Some("Label Q.b"), Some("cb_Q.b"), None),
                Section("Q.c", Some("Label Q.c"), Some("cb_Q.c"), None) >>)),
            Section("R", Some("Label R"), Some("cb_R"), None) >>),
         Some("cb_menu"))

FullMenus == { SampleMenu, SingleLeafMenu, WideMenu }

\* Which optional fields a menu keeps: a section at depth d (1 = top level)
\* and index i keeps its label iff (d + i) % 2 is in labels, its callback iff
\* (d + i) % 2 is in callbacks; the Menu keeps its callback iff root is TRUE.
Masks == [labels : SUBSET {0, 1}, callbacks : SUBSET {0, 1}, root : BOOLEAN]

RECURSIVE StripSection(_, _, _, _)
StripSection(s, d, i, mask) ==
    Section(s.name,
            IF (d + i) % 2 \in mask.labels THEN s.label ELSE None,
            IF (d + i) % 2 \in mask.callbacks THEN s.callback ELSE None,
            IF s.sections = None THEN None
            ELSE Some([k \in 1..Len(Get(s.sections)) |->
                          StripSection(Get(s.sections)[k], d + 1, k - 1, mask)]))

StripMenu(m, mask) ==
    Menu(Some([k \in 1..Len(Get(m.sections)) |->
                  StripSection(Get(m.sections)[k], 1, k - 1, mask)]),
         IF mask.root THEN m.callback ELSE None)

Menus == { StripMenu(m, mask) : m \in FullMenus, mask \in Masks }

\* Every callback identifier, with the value its function returns: cb_A.b
\* and cb_Q.b are functions returning None.
AllCallbacks ==
    [id \in {"cb_menu", "cb_A", "cb_A.a", "cb_A.b", "cb_B", "cb_B.a", "cb_B.a.a",
             "cb_X", "cb_P", "cb_Q", "cb_Q.a", "cb_Q.b", "cb_Q.c", "cb_R"} |->
        CASE id = "cb_menu"  -> Some("ran cb_menu")
          [] id = "cb_A"     -> Some("ran cb_A")
          [] id = "cb_A.a"   -> Some("ran cb_A.a")
          [] id = "cb_A.b"   -> None
          [] id = "cb_B"     -> Some("ran cb_B")
          [] id = "cb_B.a"   -> Some("ran cb_B.a")
          [] id = "cb_B.a.a" -> Some("ran cb_B.a.a")
          [] id = "cb_X"     -> Some("ran cb_X")
          [] id = "cb_P"     -> Some("ran cb_P")
          [] id = "cb_Q"     -> Some("ran cb_Q")
          [] id = "cb_Q.a"   -> Some("ran cb_Q.a")
          [] id = "cb_Q.b"   -> None
          [] id = "cb_Q.c"   -> Some("ran cb_Q.c")
          [] id = "cb_R"     -> Some("ran cb_R")]

\* The key sets of the registries supplied: every identifier, the Menu's
\* only, and every identifier but the Menu's and those of A.a, X, P and Q.a.
RegistryKeys ==
    { DOMAIN AllCallbacks,
      {"cb_menu"},
      (DOMAIN AllCallbacks) \ {"cb_menu", "cb_A.a", "cb_X", "cb_P", "cb_Q.a"} }

\* callbacks is None or a non-empty dictionary.
Registries == { None } \cup { Some([id \in K |-> AllCallbacks[id]]) : K \in RegistryKeys }

---------------------------------------------------------------------------
(* Outcomes of a call *)

Returned(value, invoked) == [exc |-> None, ret |-> value, invoked |-> invoked]

Raised(exception, invoked) == [exc |-> Some(exception), ret |-> None, invoked |-> invoked]

---------------------------------------------------------------------------
(* MenuHandler.__get_location *)

\* The recursion consumes the iterator `it` (the indexes not yet yielded);
\* next() on the exhausted iterator raises StopIteration, which the caller
\* one level up catches to return the section it was about to descend into.
\* GetLocation that never descends: the top-level section of the path.
GetLocation_TopOnly(sections, it) ==
    IF it = << >> THEN [stop |-> "StopIteration"]
    ELSE Get(sections)[Head(it) + 1]

RECURSIVE GetLocation(_, _)
GetLocation(sections, it) ==
    IF it = << >> THEN [stop |-> "StopIteration"]
    ELSE LET idx == Head(it)
             r   == GetLocation(Get(sections)[idx + 1].sections, Tail(it))
         IN  IF "stop" \in DOMAIN r THEN Get(sections)[idx + 1] ELSE r

---------------------------------------------------------------------------
(* MenuHandler.__get_parent_current_location *)

\* The for loop over enumerate(current_location), from position idx on.
RECURSIVE ParentLoop(_, _, _, _)
ParentLoop(section, loc, idx, last_index) ==
    LET s == Get(section.sections)[loc[idx + 1] + 1]
    IN  IF last_index = idx THEN s ELSE ParentLoop(s, loc, idx + 1, last_index)

GetParentCurrentLocation(m, loc) ==
    IF Len(loc) <= 1 THEN m
    ELSE ParentLoop(m, loc, 0, Len(loc) - 2)

---------------------------------------------------------------------------
(* MenuHandler.get_current_location *)

\* InvokeCallback reading the registry with a default (dict.get style): an
\* identifier without a function yields None instead of an error.
InvokeCallback_Default(cbs, id) ==
    IF cbs = None \/ id \notin DOMAIN Get(cbs) THEN Returned(None, << >>)
    ELSE Returned(Get(cbs)[id], << id >>)

\* r = self.__callbacks[section.callback](): subscripting None raises
\* TypeError, a missing key raises KeyError, otherwise the function runs.
InvokeCallback(cbs, id) ==
    IF cbs = None THEN Raised("TypeError", << >>)
    ELSE IF id \notin DOMAIN Get(cbs) THEN Raised("KeyError", << >>)
    ELSE Returned(Get(cbs)[id], << id >>)

\* LabelOrName with the name preferred to the label.
LabelOrName_NameFirst(section) ==
    IF "name" \notin DOMAIN section THEN Raised("AttributeError", << >>)
    ELSE IF section.name = "" THEN Raised("AssertionError", << >>)
    ELSE Returned(Some(section.name), << >>)

\* Lines 207-212: the label if not None, else the name. A Menu has neither
\* attribute; an empty label or name fails its assertion.
LabelOrName(section) ==
    IF "label" \notin DOMAIN section THEN Raised("AttributeError", << >>)
    ELSE IF section.label # None
         THEN IF Get(section.label) = "" THEN Raised("AssertionError", << >>)
              ELSE Returned(section.label, << >>)
    ELSE IF section.name = "" THEN Raised("AssertionError", << >>)
    ELSE Returned(Some(section.name), << >>)

\* Lines 192-195: the node the call reads.
CurrentSection(m, loc, use_callback) ==
    IF Len(loc) = 1 /\ use_callback THEN m
    ELSE GetLocation(m.sections, loc)

\* On an empty path the outermost __get_location call has nothing to catch
\* the StopIteration of its own next(): it leaves get_current_location.
GetCurrentLocation(m, cbs, loc, use_callback) ==
    LET section == CurrentSection(m, loc, use_callback)
    IN  IF "stop" \in DOMAIN section THEN Raised("StopIteration", << >>)
        ELSE IF use_callback /\ section.callback # None
        THEN InvokeCallback(cbs, Get(section.callback))
        ELSE LabelOrName(section)

---------------------------------------------------------------------------
(* The path after each operation and the use_callback it passes on *)

Pop(loc) == SubSeq(loc, 1, Len(loc) - 1)

\* BackLocation popping at the top level too.
BackLocation_PopAlways(loc) == Pop(loc)

\* BackLocation popping only below the second level.
BackLocation_DeepOnly(loc) == IF Len(loc) > 2 THEN Pop(loc) ELSE loc

BackLocation(loc) == IF Len(loc) > 1 THEN Pop(loc) ELSE loc

\* BackUseCallback activating after every back().
BackUseCallback_Always(loc) == TRUE

BackUseCallback(loc) == ~(Len(loc) > 1)

\* ForwardLocation descending from the top level only.
ForwardLocation_Shallow(m, loc) ==
    IF Len(loc) < 2 /\ GetLocation(m.sections, loc).sections # None
    THEN Append(loc, 0) ELSE loc

ForwardLocation(m, loc) ==
    IF GetLocation(m.sections, loc).sections # None THEN Append(loc, 0) ELSE loc

\* ForwardUseCallback activating on the descent instead of at a leaf.
ForwardUseCallback_Inverted(m, loc) == GetLocation(m.sections, loc).sections # None

\* ForwardUseCallback activating after every forward().
ForwardUseCallback_Always(m, loc) == TRUE

ForwardUseCallback(m, loc) == ~(GetLocation(m.sections, loc).sections # None)

\* NextIdx wrapping one sibling too early.
NextIdx_EarlyWrap(current_idx, n) ==
    LET next_idx == current_idx + 1
    IN  IF n <= next_idx + 1 THEN 0 ELSE next_idx

\* NextIdx staying on the last sibling instead of wrapping.
NextIdx_NoWrap(current_idx, n) ==
    LET next_idx == current_idx + 1
    IN  IF n = next_idx THEN current_idx ELSE next_idx

\* Lines 132-135.
NextIdx(current_idx, n) ==
    LET next_idx == current_idx + 1
    IN  IF n = next_idx THEN 0 ELSE next_idx

\* PreviousIdx staying on the first sibling instead of wrapping.
PreviousIdx_NoWrap(current_idx, n) ==
    IF current_idx = 0 THEN 0 ELSE current_idx - 1

\* Lines 165-168.
PreviousIdx(current_idx, n) ==
    (IF current_idx = 0 THEN n ELSE current_idx) - 1

\* NextLocation alternating between the first two siblings only.
NextLocation_FirstTwo(m, loc) ==
    LET parent_section == GetParentCurrentLocation(m, loc)
    IN  IF parent_section.sections # None
        THEN Append(Pop(loc),
                    IF loc[Len(loc)] = 0 /\ Len(Get(parent_section.sections)) > 1
                    THEN 1 ELSE 0)
        ELSE loc

NextLocation(m, loc) ==
    LET parent_section == GetParentCurrentLocation(m, loc)
    IN  IF parent_section.sections # None
        THEN Append(Pop(loc), NextIdx(loc[Len(loc)], Len(Get(parent_section.sections))))
        ELSE loc

PreviousLocation(m, loc) ==
    LET parent_section == GetParentCurrentLocation(m, loc)
    IN  IF parent_section.sections # None
        THEN Append(Pop(loc), PreviousIdx(loc[Len(loc)], Len(Get(parent_section.sections))))
        ELSE loc

---------------------------------------------------------------------------
(* The state machine *)

\* What is remembered of a call: the operation, the use_callback it passed
\* to get_current_location, the path before it and its outcome.
Call(op, use_callback, pre, result) ==
    [op |-> op, use_callback |-> use_callback, pre |-> pre, result |-> result]

\* The path a navigation operation leaves when issued at loc.
OpLocation(op, m, loc) ==
    CASE op = "back"     -> BackLocation(loc)
      [] op = "forward"  -> ForwardLocation(m, loc)
      [] op = "next"     -> NextLocation(m, loc)
      [] op = "previous" -> PreviousLocation(m, loc)
      [] OTHER           -> loc

\* The walk of the sample menu: the operations issued, in order, on a
\* fresh handler.
ScenarioOps == << "forward", "forward", "back", "next", "forward", "forward", "back" >>

\* The calls made since construction, as long as they are the operations
\* of ScenarioOps in order; any other call ends the recording.
Follow(call) ==
    IF /\ scenario.on
       /\ Len(scenario.calls) < Len(ScenarioOps)
       /\ call.op = ScenarioOps[Len(scenario.calls) + 1]
    THEN [on |-> TRUE, calls |-> Append(scenario.calls, call)]
    ELSE [on |-> FALSE, calls |-> << >>]

\* A handler that shares one deque among all its instances.
DequeOf_Shared(h) == 1

\* The deque the field __current_location of handler h refers to: each
\* __init__ creates its own (deque 1 is current_location, deque 2 is
\* other_location).
DequeOf(h) == h

Deque(d) == IF d = 1 THEN current_location ELSE other_location

\* MenuHandler.__init__: the assertions hold of every menu and registry
\* drawn; the deque is created empty and 0 is appended.
Init ==
    /\ menu \in Menus
    /\ callbacks \in Registries
    /\ current_location = Append(<< >>, 0)
    /\ last = Call("__init__", FALSE, << >>, Returned(None, << >>))
    /\ prev = Call("none", FALSE, << >>, Returned(None, << >>))
    /\ runStart = current_location
    /\ runLen = 0
    /\ scenario = [on |-> TRUE, calls |-> << >>]
    /\ other_location = Append(<< >>, 0)
    /\ alone = << Append(<< >>, 0), Append(<< >>, 0) >>
    /\ source = << >>
    /\ dynamic = None
    /\ built = None

\* The operation op moves the path to loc and then reports through
\* get_current_location(use_callback).
Step(op, loc, use_callback) ==
    /\ current_location' = loc
    /\ last' = Call(op, use_callback, current_location,
                    GetCurrentLocation(menu, callbacks, loc, use_callback))
    /\ prev' = last
    /\ scenario' = Follow(Call(op, use_callback, current_location,
                               GetCurrentLocation(menu, callbacks, loc, use_callback)))
    /\ alone' = [alone EXCEPT ![1] = OpLocation(op, menu, @)]
    /\ UNCHANGED << menu, callbacks, other_location >>
    /\ UNCHANGED builderVars

\* Any call but next() ends the run of consecutive next() calls.
EndRun(loc) ==
    /\ runStart' = loc
    /\ runLen' = 0

back ==
    /\ Step("back", BackLocation(current_location), BackUseCallback(current_location))
    /\ EndRun(BackLocation(current_location))

forward ==
    /\ Step("forward", ForwardLocation(menu, current_location),
            ForwardUseCallback(menu, current_location))
    /\ EndRun(ForwardLocation(menu, current_location))

next ==
    /\ Step("next", NextLocation(menu, current_location), FALSE)
    /\ IF runLen < MaxRun
       THEN /\ runLen' = runLen + 1
            /\ UNCHANGED runStart
       ELSE /\ runLen' = 1
            /\ runStart' = current_location

previous ==
    /\ Step("previous", PreviousLocation(menu, current_location), FALSE)
    /\ EndRun(PreviousLocation(menu, current_location))

get_current_location ==
    \E use_callback \in BOOLEAN :
        /\ Step("get_current_location", current_location, use_callback)
        /\ EndRun(current_location)

Next == back \/ forward \/ next \/ previous \/ get_current_location

Spec == Init /\ [][Next]_vars

\* A navigation call on the second handler: it reads and writes the deque
\* its own __current_location refers to.
other_handler ==
    \E op \in {"back", "forward", "next", "previous"} :
        LET d   == DequeOf(2)
            loc == OpLocation(op, menu, Deque(d))
        IN  /\ current_location' = IF d = 1 THEN loc ELSE current_location
            /\ other_location' = IF d = 2 THEN loc ELSE other_location
            /\ alone' = [alone EXCEPT ![2] = OpLocation(op, menu, @)]
            /\ UNCHANGED << menu, callbacks, last, prev, runStart, runLen, scenario >>
            /\ UNCHANGED builderVars

NextTwoHandlers == Next \/ other_handler

\* Two handlers over the same Menu, their calls interleaved in any order.
SpecTwoHandlers == Init /\ [][NextTwoHandlers]_vars

---------------------------------------------------------------------------
(* PropertiesMenuBuilder: strings *)

SEPARATOR == << "." >>

DEFAULT_SETTINGS == << "default_settings" >>

LABEL == << "label" >>

CALLBACK == << "callback" >>

DYNAMIC == << "dynamic" >>

Digits == << "0", "1", "2", "3", "4", "5", "6", "7", "8", "9" >>

\* str(idx) numbering the generated sections from 1.
Str_OneBased(n) == << Digits[n + 2] >>

\* str(idx): the decimal digits of n.
RECURSIVE Str(_)
Str(n) == IF n < 10 THEN << Digits[n + 1] >> ELSE Str(n \div 10) \o << Digits[(n % 10) + 1] >>

\* str.split(sep) for a one-piece separator: the parts between its
\* occurrences, empty parts included.
RECURSIVE Split(_, _)
Split(str, sep) ==
    IF \A i \in 1..Len(str) : << str[i] >> # sep THEN << str >>
    ELSE LET i == CHOOSE i \in 1..Len(str) :
                      /\ << str[i] >> = sep
                      /\ \A j \in 1..(i - 1) : << str[j] >> # sep
         IN  << SubSeq(str, 1, i - 1) >> \o Split(SubSeq(str, i + 1, Len(str)), sep)

---------------------------------------------------------------------------
(* PropertiesMenuBuilder: the OrderedDict of a group *)

\* An OrderedDict is the sequence of its << key, value >> pairs in
\* insertion order.
HasKey(od, k) == \E i \in 1..Len(od) : od[i][1] = k

Lookup(od, k) == od[CHOOSE i \in 1..Len(od) : od[i][1] = k][2]

\* od[k] = v moving a key already present to the end.
SetItem_MoveToEnd(od, k, v) ==
    Append(SelectSeq(od, LAMBDA e : e[1] # k), << k, v >>)

\* od[k] = v: a key already present keeps its position.
SetItem(od, k, v) ==
    IF HasKey(od, k)
    THEN [i \in 1..Len(od) |-> IF od[i][1] = k THEN << k, v >> ELSE od[i]]
    ELSE Append(od, << k, v >>)

\* The two kinds of value: the list [label, callback] of a section given
\* by its own options, the tuple (label, callback) of a generated section.
ListValue(label, callback) == [kind |-> "list", label |-> label, callback |-> callback]

TupleValue(label, callback) == [kind |-> "tuple", label |-> label, callback |-> callback]

Processed(od) == [exc |-> None, sections |-> od]

Failed(exception) == [exc |-> Some(exception), sections |-> << >>]

---------------------------------------------------------------------------
(* PropertiesMenuBuilder.build *)

\* Lines 91-92: one generated section per pair, from the idx-th pair on.
RECURSIVE ExpandDynamic(_, _, _, _)
ExpandDynamic(od, opt_name, pairs, idx) ==
    IF idx >= Len(pairs) THEN od
    ELSE ExpandDynamic(SetItem(od, opt_name \o Str(idx),
                               TupleValue(Some(pairs[idx + 1][1]), pairs[idx + 1][2])),
                       opt_name, pairs, idx + 1)

\* Lines 94-101: the section is created when its name is new, then the
\* label or the callback is stored; item assignment on the tuple of a
\* generated section raises TypeError; any other property is only printed.
StaticOption(od, opt_name, opt_property, value) ==
    LET od1 == IF HasKey(od, opt_name) THEN od
               ELSE SetItem(od, opt_name, ListValue(None, None))
        cur == Lookup(od1, opt_name)
    IN  IF opt_property = LABEL
        THEN IF cur.kind = "tuple" THEN Failed("TypeError")
             ELSE Processed(SetItem(od1, opt_name, ListValue(Some(value), cur.callback)))
        ELSE IF opt_property = CALLBACK
        THEN IF cur.kind = "tuple" THEN Failed("TypeError")
             ELSE Processed(SetItem(od1, opt_name, ListValue(cur.label, Some(value))))
        ELSE Processed(od1)

\* Lines 87-101: one option of a group. Subscripting a missing
\* dynamic_sections_by_opt_name raises TypeError, a missing name KeyError.
ProcessOption(od, option_str, value, dyn) ==
    LET option_l == Split(option_str, SEPARATOR)
    IN  IF Len(option_l) # 2 THEN Processed(od)
        ELSE LET opt_name     == option_l[1]
                 opt_property == option_l[2]
             IN  IF opt_property = DYNAMIC
                 THEN IF dyn = None THEN Failed("TypeError")
                      ELSE IF opt_name \notin DOMAIN Get(dyn) THEN Failed("KeyError")
                      ELSE Processed(ExpandDynamic(od, opt_name, Get(dyn)[opt_name], 0))
                 ELSE StaticOption(od, opt_name, opt_property, value)

\* Line 86: the loop over parser.items(section_name), from the i-th on.
RECURSIVE ProcessItems(_, _, _, _)
ProcessItems(items, i, od, dyn) ==
    IF i > Len(items) THEN Processed(od)
    ELSE LET r == ProcessOption(od, items[i][1], items[i][2], dyn)
         IN  IF r.exc # None THEN r ELSE ProcessItems(items, i + 1, r.sections, dyn)

\* Lines 103-105 without the check for an empty group.
FinishGroup_NoCheck(od) ==
    IF \E i \in 1..Len(od) : od[i][2].label = None THEN Failed("AttributeError")
    ELSE Processed([i \in 1..Len(od) |->
                       Section(od[i][1], od[i][2].label, od[i][2].callback, None)])

\* Lines 103-105: the tuple of leaf sections; s[0].encode fails on a label
\* that is None; an empty tuple raises ValueError.
FinishGroup(od) ==
    IF \E i \in 1..Len(od) : od[i][2].label = None THEN Failed("AttributeError")
    ELSE IF od = << >> THEN Failed("ValueError")
    ELSE Processed([i \in 1..Len(od) |->
                       Section(od[i][1], od[i][2].label, od[i][2].callback, None)])

\* Lines 85-106: one group that is not the reserved one.
ProcessGroup(group, dyn) ==
    LET r == ProcessItems(group.items, 1, << >>, dyn)
    IN  IF r.exc # None THEN r ELSE FinishGroup(r.sections)

\* Line 83: parser.get(section_name, CALLBACK) raises NoOptionError when
\* the reserved group has no callback option.
GetRootCallback(group) ==
    IF \E i \in 1..Len(group.items) : group.items[i][1] = CALLBACK
    THEN [exc |-> None,
          value |-> Some(group.items[CHOOSE i \in 1..Len(group.items) :
                                         group.items[i][1] = CALLBACK][2])]
    ELSE [exc |-> Some("NoOptionError"), value |-> None]

BuildReturned(m) == [exc |-> None, menu |-> Some(m)]

BuildRaised(exception) == [exc |-> Some(exception), menu |-> None]

\* Lines 81-108: the loop over parser.sections(), from the i-th group on.
RECURSIVE BuildLoop(_, _, _, _, _)
BuildLoop(groups, i, roots, root_callback, dyn) ==
    IF i > Len(groups) THEN BuildReturned(Menu(Some(roots), root_callback))
    ELSE IF groups[i].name = DEFAULT_SETTINGS
    THEN LET c == GetRootCallback(groups[i])
         IN  IF c.exc # None THEN BuildRaised(Get(c.exc))
             ELSE BuildLoop(groups, i + 1, roots, c.value, dyn)
    ELSE LET r == ProcessGroup(groups[i], dyn)
         IN  IF r.exc # None THEN BuildRaised(Get(r.exc))
             ELSE BuildLoop(groups, i + 1,
                            Append(roots, Section(groups[i].name, None, None,
                                                  Some(r.sections))),
                            root_callback, dyn)

Build(groups, dyn) == BuildLoop(groups, 1, << >>, None, dyn)

---------------------------------------------------------------------------
(* The properties files and dynamic sections build() is called with *)

Group(name, items) == [name |-> name, items |-> items]

\* The value of an option: the option string itself after an "=" piece, so
\* that no two options carry the same value.
Item(option_str) == << option_str, << "=" >> \o option_str >>

\* An option written with nothing after the "=": its value is the empty
\* string.
EmptyItem(option_str) == << option_str, << >> >>

\* The option strings: name.property for three names (one of them, a1, of
\* the form of a generated name) and four properties (one unrecognised),
\* an option with no separator, one with two, and one whose name part is
\* empty.
OptionStrings ==
    { n \o SEPARATOR \o q :
          n \in { << "a" >>, << "b" >>, << "a", "1" >> },
          q \in { LABEL, CALLBACK, DYNAMIC, << "color" >> } }
    \cup { << "a" >>, << "a", ".", "label", ".", "x" >>, SEPARATOR \o LABEL }

\* The options that are also drawn with an empty value.
EmptyValuedOptions == { << "b" >> \o SEPARATOR \o LABEL }

\* The sequence q of options extended by one option it does not hold yet.
Extensions(q) ==
    { Append(q, Item(o)) :
          o \in { x \in OptionStrings : \A i \in 1..Len(q) : q[i][1] # x } }
    \cup { Append(q, EmptyItem(o)) :
              o \in { x \in EmptyValuedOptions : \A i \in 1..Len(q) : q[i][1] # x } }

\* The sequences of at most n distinct options.
RECURSIVE ItemSeqs(_)
ItemSeqs(n) ==
    IF n = 0 THEN { << >> }
    ELSE LET shorter == ItemSeqs(n - 1)
         IN  shorter \cup UNION { Extensions(q) : q \in { x \in shorter : Len(x) = n - 1 } }

\* The first group, of any options; the second, absent or one of: empty,
\* well formed, a section with no label; the reserved group, absent, with
\* its callback or without.
FirstGroups == { << Group(<< "g1" >>, items) >> : items \in ItemSeqs(MaxItems) }

SecondGroups ==
    { << >>,
      << Group(<< "g2" >>, << >>) >>,
      << Group(<< "g2" >>, << Item(<< "c", ".", "label" >>) >>) >>,
      << Group(<< "g2" >>, << Item(<< "c", ".", "callback" >>) >>) >> }

ReservedGroups ==
    { << >>,
      << Group(DEFAULT_SETTINGS, << Item(CALLBACK) >>) >>,
      << Group(DEFAULT_SETTINGS, << >>) >> }

\* The groups in file order: the reserved group first or last, the other
\* two in either order; or a file with no group but the reserved one.
Sources ==
    { r \o g1 \o g2 : r \in ReservedGroups, g1 \in FirstGroups, g2 \in SecondGroups }
    \cup { g2 \o g1 \o r : r \in ReservedGroups, g1 \in FirstGroups, g2 \in SecondGroups }
    \cup ReservedGroups

\* The pairs (label, callback) of dynamic sections.
Pair(label, callback) == << label, callback >>

\* dynamic_sections_by_opt_name: None, or a dictionary from names to
\* sequences of pairs.
Dynamics ==
    { None,
      Some((<< "a" >> :> << >>) @@
           (<< "b" >> :> << Pair(<< "dyn b0" >>, None) >>)),
      Some(<< "a" >> :> << Pair(<< "dyn a0" >>, Some(<< "cb a0" >>)),
                           Pair(<< "dyn a1" >>, None) >>),
      Some((<< "a" >> :> << Pair(<< "dyn a0" >>, Some(<< "cb a0" >>)),
                            Pair(<< "dyn a1" >>, None) >>) @@
           (<< "b" >> :> << Pair(<< "dyn b0" >>, Some(<< "cb b0" >>)) >>)) }

---------------------------------------------------------------------------
(* The builder as a state machine *)

\* A builder constructed on a properties file, before build() is called;
\* no handler exists.
InitBuild ==
    /\ source \in Sources
    /\ dynamic \in Dynamics
    /\ built = None
    /\ menu = None
    /\ callbacks = None
    /\ current_location = << >>
    /\ last = Call("none", FALSE, << >>, Returned(None, << >>))
    /\ prev = Call("none", FALSE, << >>, Returned(None, << >>))
    /\ runStart = << >>
    /\ runLen = 0
    /\ scenario = [on |-> FALSE, calls |-> << >>]
    /\ other_location = << >>
    /\ alone = << << >>, << >> >>

\* PropertiesMenuBuilder.build.
build ==
    /\ built = None
    /\ built' = Some(Build(source, dynamic))
    /\ UNCHANGED << source, dynamic >>
    /\ UNCHANGED handlerVars

NextBuild == build

SpecBuild == InitBuild /\ [][NextBuild]_vars

---------------------------------------------------------------------------
(* A handler constructed on the Menu that build() returned *)

\* MenuHandler.__init__, lines 44-50: the sections of the menu are not
\* empty (nor None), and the registry is None or a dictionary that is not
\* empty.
InitAsserts(m, cbs) ==
    /\ m.sections # None
    /\ Get(m.sections) # << >>
    /\ cbs = None \/ DOMAIN Get(cbs) # {}

\* MenuHandler(menu) on the Menu build() returned, with no registry: a
\* failed assertion raises AssertionError and no handler exists; else the
\* fields are set and 0 is appended to the deque.
MenuHandler ==
    /\ built # None
    /\ Get(built).exc = None
    /\ last.op = "none"
    /\ IF InitAsserts(Get(Get(built).menu), None)
       THEN /\ menu' = Get(Get(built).menu)
            /\ callbacks' = None
            /\ current_location' = Append(<< >>, 0)
            /\ last' = Call("__init__", FALSE, << >>, Returned(None, << >>))
       ELSE /\ last' = Call("__init__", FALSE, << >>, Raised("AssertionError", << >>))
            /\ UNCHANGED << menu, callbacks, current_location >>
    /\ UNCHANGED << prev, runStart, runLen, scenario, other_location, alone >>
    /\ UNCHANGED builderVars

NextBuildAndHandle == build \/ MenuHandler

\* build() once, then a handler on its result.
SpecBuildAndHandle == InitBuild /\ [][NextBuildAndHandle]_vars

---------------------------------------------------------------------------
(* Vocabulary of the properties: the tree read directly, level by level *)

\* The section the path p designates: index the children sequence of each
\* level with the next element of p.
RECURSIVE NodeAt(_, _)
NodeAt(node, p) ==
    IF Len(p) = 1 THEN Get(node.sections)[p[1] + 1]
    ELSE NodeAt(Get(node.sections)[p[1] + 1], Tail(p))

IsLeaf(section) == section.sections = None

\* The label if present, else the name.
Shown(section) == IF section.label # None THEN section.label ELSE Some(section.name)

\* The children of the parent of the node at p: the Menu's when p has
\* length 1, otherwise the enclosing Section's.
Siblings(m, p) ==
    IF Len(p) = 1 THEN Get(m.sections) ELSE Get(NodeAt(m, Pop(p)).sections)

LastOf(p) == p[Len(p)]

\* The registry has an entry for the callback identifier id.
Registered(id) == callbacks # None /\ id \in DOMAIN Get(callbacks)

\* The outcome of invoking the registered callback id, and that of
\* reporting the section without invoking anything.
Activated(id) == Returned(Get(callbacks)[id], << id >>)

Reported(section) == Returned(Shown(section), << >>)

---------------------------------------------------------------------------
(* C1 *)

\* C1: a forward() issued at a leaf section, at any depth (a top-level leaf
\* included), leaves the path unchanged and activates that leaf: it returns
\* the result of the leaf's own callback when the leaf declares one (and
\* the registry holds it), otherwise the leaf's label if present, else its
\* name; a second forward() has the same outcome and leaves the path
\* unchanged.
C1_ForwardAtLeafActivatesLeaf ==
    (last.op = "forward" /\ IsLeaf(NodeAt(menu, last.pre))) =>
        LET leaf == NodeAt(menu, last.pre)
        IN  /\ current_location = last.pre
            /\ leaf.callback # None /\ Registered(Get(leaf.callback))
                   => last.result = Activated(Get(leaf.callback))
            /\ leaf.callback = None => last.result = Reported(leaf)
            /\ prev.op = "forward" /\ prev.pre = last.pre
                   => last.result = prev.result

---------------------------------------------------------------------------
(* C2 *)

\* C2: a back() issued at path length 1 leaves the path unchanged and
\* activates the current top-level section: it invokes that section's
\* callback when the section declares one, and the Menu's callback only
\* when the section declares none.
C2_BackAtTopActivatesSection ==
    (last.op = "back" /\ Len(last.pre) = 1) =>
        LET top == NodeAt(menu, last.pre)
        IN  /\ current_location = last.pre
            /\ top.callback # None /\ Registered(Get(top.callback))
                   => last.result = Activated(Get(top.callback))
            /\ top.callback # None /\ menu.callback # None
                   => last.result.invoked # << Get(menu.callback) >>
            /\ top.callback = None /\ menu.callback # None
                   /\ Registered(Get(menu.callback))
                   => last.result = Activated(Get(menu.callback))

---------------------------------------------------------------------------
(* C3 *)

\* C3: a freshly constructed handler has path [0], and
\* get_current_location(False) called before any navigation returns the
\* first top-level section's label if present, else its name, and invokes
\* no callback.
C3_FreshHandlerReportsFirstSection ==
    /\ last.op = "__init__" => current_location = << 0 >>
    /\ (last.op = "get_current_location" /\ ~last.use_callback /\ prev.op = "__init__")
           => /\ last.result = Reported(Get(menu.sections)[1])
              /\ current_location = << 0 >>

\* The first section has both a label and a registered callback, and the
\* fresh handler has reported it.
C3_Witness ==
    /\ last.op = "get_current_location" /\ ~last.use_callback /\ prev.op = "__init__"
    /\ Get(menu.sections)[1].label # None
    /\ Get(menu.sections)[1].callback # None
    /\ Registered(Get(Get(menu.sections)[1].callback))
    /\ last.result.ret = Get(menu.sections)[1].label

---------------------------------------------------------------------------
(* C4 *)

\* C4: with c the last path element and n the number of children of the
\* current node's parent, next() replaces the last element by (c + 1) mod n
\* and previous() by (c - 1 + n) mod n; the path length and every earlier
\* element are unchanged.
C4_SiblingCycling ==
    last.op \in {"next", "previous"} =>
        LET c == LastOf(last.pre)
            n == Len(Siblings(menu, last.pre))
        IN  /\ Len(current_location) = Len(last.pre)
            /\ Pop(current_location) = Pop(last.pre)
            /\ last.op = "next" => LastOf(current_location) = (c + 1) % n
            /\ last.op = "previous" => LastOf(current_location) = (c - 1 + n) % n
            /\ n = 1 => current_location = last.pre

\* previous() at index 0 of a level of three siblings below the top level
\* has wrapped to the last sibling.
C4_Witness ==
    /\ last.op = "previous"
    /\ Len(last.pre) = 2
    /\ LastOf(last.pre) = 0
    /\ Len(Siblings(menu, last.pre)) = 3
    /\ LastOf(current_location) = 2

---------------------------------------------------------------------------
(* C5 *)

\* C5: a back() issued at path length greater than 1 removes exactly the
\* last path element, invokes no callback and returns the parent section's
\* label if present, else its name.
C5_BackPopsWithoutActivation ==
    (last.op = "back" /\ Len(last.pre) > 1) =>
        /\ current_location = Pop(last.pre)
        /\ last.result = Reported(NodeAt(menu, Pop(last.pre)))

\* back() has moved to a parent that declares a registered callback.
C5_Witness ==
    /\ last.op = "back"
    /\ Len(last.pre) > 1
    /\ NodeAt(menu, current_location).callback # None
    /\ Registered(Get(NodeAt(menu, current_location).callback))
    /\ last.result.invoked = << >>

---------------------------------------------------------------------------
(* C6 *)

\* C6: a forward() issued at a branch section appends exactly one element
\* 0 to the path, invokes no callback and returns the first child's label
\* if present, else its name.
C6_ForwardDescendsWithoutActivation ==
    (last.op = "forward" /\ ~IsLeaf(NodeAt(menu, last.pre))) =>
        /\ current_location = Append(last.pre, 0)
        /\ last.result = Reported(Get(NodeAt(menu, last.pre).sections)[1])

\* forward() has descended to a first child that declares a registered
\* callback and has no label.
C6_Witness ==
    /\ last.op = "forward"
    /\ ~IsLeaf(NodeAt(menu, last.pre))
    /\ NodeAt(menu, current_location).callback # None
    /\ Registered(Get(NodeAt(menu, current_location).callback))
    /\ NodeAt(menu, current_location).label = None
    /\ last.result.ret = Some(NodeAt(menu, current_location).name)

---------------------------------------------------------------------------
(* C7 *)

\* C7: forward() at a branch immediately followed by back() restores the
\* path held before the forward(), and neither call invokes a callback.
C7_ForwardBackRoundTrip ==
    (prev.op = "forward" /\ last.op = "back" /\ ~IsLeaf(NodeAt(menu, prev.pre))) =>
        /\ current_location = prev.pre
        /\ prev.result.invoked = << >>
        /\ last.result.invoked = << >>

\* The round trip was made from a top-level branch that declares a
\* registered callback, under a Menu that declares one too.
C7_Witness ==
    /\ prev.op = "forward" /\ last.op = "back"
    /\ Len(prev.pre) = 1
    /\ ~IsLeaf(NodeAt(menu, prev.pre))
    /\ NodeAt(menu, prev.pre).callback # None
    /\ Registered(Get(NodeAt(menu, prev.pre).callback))
    /\ menu.callback # None /\ Registered(Get(menu.callback))
    /\ current_location = prev.pre

---------------------------------------------------------------------------
(* C8 *)

\* C8: next() followed by previous(), and previous() followed by next(),
\* leave the path equal to the path before the pair of calls.
C8_NextPreviousInverse ==
    ((prev.op = "next" /\ last.op = "previous")
        \/ (prev.op = "previous" /\ last.op = "next"))
    => current_location = prev.pre

\* previous() then next() from index 0 of a level of three siblings: the
\* pair went through the last sibling and came back.
C8_Witness ==
    /\ prev.op = "previous" /\ last.op = "next"
    /\ LastOf(prev.pre) = 0
    /\ Len(Siblings(menu, prev.pre)) = 3
    /\ LastOf(last.pre) = 2
    /\ current_location = prev.pre

---------------------------------------------------------------------------
(* C9 *)

\* C9: with n the number of children of the current node's parent, n
\* consecutive next() calls return the path to its value before the first
\* of them, and no smaller positive number of next() calls does.
C9_NextCycleClosure ==
    runLen > 0 =>
        LET n == Len(Siblings(menu, runStart))
        IN  /\ runLen = n => current_location = runStart
            /\ runLen < n => current_location # runStart

\* Three next() calls in a row on a level of three siblings, started from
\* the middle sibling, are back at the start.
C9_Witness ==
    /\ runLen = 3
    /\ Len(Siblings(menu, runStart)) = 3
    /\ LastOf(runStart) = 1
    /\ current_location = runStart

---------------------------------------------------------------------------
(* C10 *)

\* The node an activating call issued at path p reads its callback from:
\* the Menu when p has length 1, otherwise the section at p.
Target(p) == IF Len(p) = 1 THEN menu ELSE NodeAt(menu, p)

---------------------------------------------------------------------------
(* C11 *)

\* C11: when the node to be activated declares no callback (neither the
\* current section nor, at path length 1, the Menu), an activating call
\* (forward() at a leaf, back() at path length 1, get_current_location(True))
\* does not fail and returns the current section's label if present, else
\* its name.
C11_ActivationWithoutCallbackReports ==
    (/\ last.op \in {"forward", "back", "get_current_location"}
     /\ last.use_callback
     /\ NodeAt(menu, last.pre).callback = None
     /\ Target(last.pre).callback = None)
    => last.result = Reported(NodeAt(menu, last.pre))

---------------------------------------------------------------------------
(* C12 *)

NavigationOps == {"back", "forward", "next", "previous"}

\* C12: a navigation operation invokes a callback only when it is a
\* forward() issued at a leaf or a back() issued at path length 1; next()
\* and previous() never invoke one, and no operation both changes the path
\* and invokes a callback.
C12_ActivationOnlyAtTerminalMoves ==
    (last.op \in NavigationOps /\ last.result.invoked # << >>) =>
        /\ \/ last.op = "forward" /\ IsLeaf(NodeAt(menu, last.pre))
           \/ last.op = "back" /\ Len(last.pre) = 1
        /\ current_location = last.pre

\* A forward() at a leaf below the top level has invoked the leaf's
\* callback.
C12_Witness ==
    /\ last.op = "forward"
    /\ Len(last.pre) = 3
    /\ IsLeaf(NodeAt(menu, last.pre))
    /\ NodeAt(menu, last.pre).callback # None
    /\ last.result.invoked = << Get(NodeAt(menu, last.pre).callback) >>
    /\ current_location = last.pre

---------------------------------------------------------------------------
(* C19 *)

Max(S) == CHOOSE x \in S : \A y \in S : y <= x

\* The number of levels below node: 0 for a leaf.
RECURSIVE Height(_)
Height(node) ==
    IF node.sections = None \/ Get(node.sections) = << >> THEN 0
    ELSE 1 + Max({ Height(Get(node.sections)[k]) : k \in 1..Len(Get(node.sections)) })

\* Every element of p is an index of the children of the node reached so
\* far, which therefore is not a leaf.
RECURSIVE ValidPath(_, _)
ValidPath(node, p) ==
    \/ p = << >>
    \/ /\ node.sections # None
       /\ p[1] \in 0..(Len(Get(node.sections)) - 1)
       /\ ValidPath(Get(node.sections)[p[1] + 1], Tail(p))

\* C19: after any sequence of back, forward, next and previous calls the
\* path is non-empty, no longer than the tree is high, and each of its
\* elements is a valid child index at its level.
C19_PathAlwaysValid ==
    /\ current_location # << >>
    /\ Len(current_location) <= Height(menu)
    /\ ValidPath(menu, current_location)

\* The handler stands on the deepest level of a tree of height 3, reached
\* by a forward().
C19_Witness ==
    /\ last.op = "forward"
    /\ Height(menu) = 3
    /\ Len(current_location) = 3
    /\ ValidPath(menu, current_location)

---------------------------------------------------------------------------
(* C20 *)

\* C20: for every reachable path the recursive resolution __get_location
\* returns the section obtained by indexing the children level by level
\* with each path element in turn, and get_current_location(False) returns
\* that section's label if present, else its name, and leaves the path
\* unchanged.
C20_ResolutionIsLevelByLevelIndexing ==
    /\ GetLocation(menu.sections, current_location) = NodeAt(menu, current_location)
    /\ (last.op = "get_current_location" /\ ~last.use_callback)
           => /\ last.result = Reported(NodeAt(menu, last.pre))
              /\ current_location = last.pre

\* get_current_location(False) has reported a section of the third level
\* that declares a label.
C20_Witness ==
    /\ last.op = "get_current_location" /\ ~last.use_callback
    /\ Len(current_location) = 3
    /\ NodeAt(menu, current_location).label # None
    /\ last.result.ret = NodeAt(menu, current_location).label

---------------------------------------------------------------------------
(* C13 *)

\* The path after the i-th call of the recorded walk.
After(i) ==
    IF i < Len(scenario.calls) THEN scenario.calls[i + 1].pre ELSE current_location

\* C13: on the sample menu the walk forward, forward, back, next, forward,
\* forward, back of a fresh handler visits A.a, A.a (path unchanged, A.a
\* activated), A, B, B.a, B.a.a, B.a in order, and A.a's callback is the
\* only callback invoked.
C13_SampleWalk ==
    (/\ scenario.on
     /\ Len(scenario.calls) = Len(ScenarioOps)
     /\ Get(menu.sections)[1].name = "A")
    => LET calls == scenario.calls
           Aa    == NodeAt(menu, << 0, 0 >>)
       IN  /\ calls[1].pre = << 0 >>
           /\ [i \in 1..Len(calls) |-> NodeAt(menu, After(i)).name]
                  = << "A.a", "A.a", "A", "B", "B.a", "B.a.a", "B.a" >>
           /\ After(2) = After(1)
           /\ \A i \in (1..Len(calls)) \ {2} : calls[i].result.invoked = << >>
           /\ Aa.callback # None /\ Registered(Get(Aa.callback))
                  => calls[2].result = Activated(Get(Aa.callback))
           /\ Aa.callback = None => calls[2].result = Reported(Aa)

\* The walk is complete on a sample menu whose every section declares a
\* registered callback, and only A.a's has run.
C13_Witness ==
    /\ scenario.on
    /\ Len(scenario.calls) = Len(ScenarioOps)
    /\ Get(menu.sections)[1].name = "A"
    /\ Get(menu.sections)[1].callback # None
    /\ Get(menu.sections)[2].callback # None
    /\ scenario.calls[2].result.invoked = << "cb_A.a" >>
    /\ NodeAt(menu, current_location).name = "B.a"

---------------------------------------------------------------------------
(* C14 *)

\* C14: for two handlers over the same Menu, under every interleaving of
\* their calls each handler's path is the path its own calls alone would
\* have produced, and no call changes the Menu tree.
C14_HandlersIndependent ==
    /\ [](/\ Deque(DequeOf(1)) = alone[1]
          /\ Deque(DequeOf(2)) = alone[2])
    /\ [][menu' = menu]_vars

\* Both handlers have moved, to different sections of the same Menu.
C14_Witness ==
    /\ Len(current_location) = 3
    /\ Len(other_location) = 2
    /\ LastOf(other_location) = 1
    /\ last.op = "forward"
    /\ alone = << current_location, other_location >>

---------------------------------------------------------------------------
(* Vocabulary of the builder's properties: the source read directly *)

NonReserved(g) == g.name # DEFAULT_SETTINGS

\* The groups that are not the reserved one, in source order.
PlainGroups == SelectSeq(source, NonReserved)

\* An option is a key when it is <name><separator><property>.
IsKey(item) == Len(Split(item[1], SEPARATOR)) = 2

KeyName(item) == Split(item[1], SEPARATOR)[1]

KeyProperty(item) == Split(item[1], SEPARATOR)[2]

IsDynamicKey(item) == IsKey(item) /\ KeyProperty(item) = DYNAMIC

IsUnknownKey(item) == IsKey(item) /\ KeyProperty(item) \notin {LABEL, CALLBACK, DYNAMIC}

\* The pairs supplied for the base name of a dynamic key.
Supplied(item) ==
    dynamic # None /\ KeyName(item) \in DOMAIN Get(dynamic)

PairsOf(item) == Get(dynamic)[KeyName(item)]

\* The name of the i-th section generated for base (i counted from 1):
\* base followed by the digit of i - 1.
Generated(base, i) == base \o << Digits[i] >>

\* A group that yields no section: none of its options is a key, except
\* dynamic keys that are supplied an empty sequence of pairs.
YieldsZero(g) ==
    \A i \in 1..Len(g.items) :
        \/ ~IsKey(g.items[i])
        \/ /\ IsDynamicKey(g.items[i])
           /\ Supplied(g.items[i])
           /\ PairsOf(g.items[i]) = << >>

\* A well-formed group: the reserved group holds its callback; another
\* group holds label and callback keys only, at least one, and a label
\* for every name.
WellFormedGroup(g) ==
    IF ~NonReserved(g) THEN \E i \in 1..Len(g.items) : g.items[i][1] = CALLBACK
    ELSE /\ g.items # << >>
         /\ \A i \in 1..Len(g.items) :
                /\ IsKey(g.items[i])
                /\ KeyProperty(g.items[i]) \in {LABEL, CALLBACK}
                /\ \E j \in 1..Len(g.items) :
                       /\ IsKey(g.items[j])
                       /\ KeyName(g.items[j]) = KeyName(g.items[i])
                       /\ KeyProperty(g.items[j]) = LABEL

\* build() has returned a Menu.
BuiltMenu == built # None /\ Get(built).exc = None

TheMenu == Get(Get(built).menu)

\* The names an option introduces, in order.
NamesOf(item) ==
    IF ~IsKey(item) THEN << >>
    ELSE IF IsDynamicKey(item)
    THEN [i \in 1..Len(PairsOf(item)) |-> Generated(KeyName(item), i)]
    ELSE << KeyName(item) >>

\* seq without the repetitions of an element already met.
RECURSIVE Dedupe(_)
Dedupe(seq) ==
    IF seq = << >> THEN << >>
    ELSE LET front == Dedupe(SubSeq(seq, 1, Len(seq) - 1))
             x     == seq[Len(seq)]
         IN  IF \E i \in 1..Len(front) : front[i] = x THEN front ELSE Append(front, x)

RECURSIVE Concat(_)
Concat(seqs) == IF seqs = << >> THEN << >> ELSE Head(seqs) \o Concat(Tail(seqs))

\* The names of a group in the order they are first seen.
FirstSeenNames(g) == Dedupe(Concat([i \in 1..Len(g.items) |-> NamesOf(g.items[i])]))

\* The position of the child called name among kids (0 when there is none).
PositionOf(kids, name) ==
    IF \E j \in 1..Len(kids) : kids[j].name = name
    THEN CHOOSE j \in 1..Len(kids) : kids[j].name = name
    ELSE 0

---------------------------------------------------------------------------
(* C15 *)

---------------------------------------------------------------------------
(* C16 *)

\* C16: a Menu that build() returns has one top-level Section per group
\* other than the reserved one, in source order, named after its group,
\* with no label and no callback, whose children are leaf Sections in the
\* order their names were first seen in the group; the Menu's callback is
\* the reserved group's callback value, or None when there is no reserved
\* group.
C16_BuiltMenuShape ==
    BuiltMenu =>
        LET tops == Get(TheMenu.sections)
        IN  /\ Len(tops) = Len(PlainGroups)
            /\ \A k \in 1..Len(PlainGroups) :
                   /\ tops[k].name = PlainGroups[k].name
                   /\ tops[k].label = None
                   /\ tops[k].callback = None
                   /\ tops[k].sections # None
                   /\ [j \in 1..Len(Get(tops[k].sections)) |-> Get(tops[k].sections)[j].name]
                          = FirstSeenNames(PlainGroups[k])
                   /\ \A j \in 1..Len(Get(tops[k].sections)) :
                          Get(tops[k].sections)[j].sections = None
            /\ TheMenu.callback =
                   IF \E i \in 1..Len(source) : ~NonReserved(source[i])
                   THEN Some(<< "=" >> \o CALLBACK)
                   ELSE None

\* A Menu built from two groups and a reserved group that follows them;
\* the first group holds two sections.
C16_Witness ==
    /\ BuiltMenu
    /\ Len(source) = 3
    /\ ~NonReserved(source[3])
    /\ Len(Get(TheMenu.sections)) = 2
    /\ Len(Get(Get(TheMenu.sections)[2].sections)) = 2
    /\ TheMenu.callback # None

---------------------------------------------------------------------------
(* C17 *)

\* The children of the top-level section built for the group g.
KidsOf(g) ==
    Get(Get(TheMenu.sections)[PositionOf(Get(TheMenu.sections), g.name)].sections)

\* The i-th pair supplied for the dynamic key item has become a leaf
\* section of the group g under its generated name.
GeneratedSection(g, item, i) ==
    LET name == Generated(KeyName(item), i)
    IN  /\ PositionOf(KidsOf(g), name) # 0
        /\ KidsOf(g)[PositionOf(KidsOf(g), name)]
               = Section(name, Some(PairsOf(item)[i][1]), PairsOf(item)[i][2], None)

\* The name is introduced by a key of g that comes before its n-th option.
SeenBefore(g, n, name) ==
    \E m \in 1..(n - 1) : \E x \in 1..Len(NamesOf(g.items[m])) : NamesOf(g.items[m])[x] = name

---------------------------------------------------------------------------
(* C18 *)

\* The source without the n-th option of its k-th group.
WithoutOption(k, n) ==
    [source EXCEPT ![k].items =
        SubSeq(@, 1, n - 1) \o SubSeq(@, n + 1, Len(@))]

\* C18: a key whose property is not label, callback or the dynamic marker
\* is ignored: when the source without the key builds, the source with it
\* builds too, into the same Menu.
C18_UnknownPropertyIgnored ==
    built # None =>
        \A k \in 1..Len(source) : \A n \in 1..Len(source[k].items) :
            (/\ NonReserved(source[k])
             /\ IsUnknownKey(source[k].items[n])
             /\ Build(WithoutOption(k, n), dynamic).exc = None)
            => Get(built) = Build(WithoutOption(k, n), dynamic)

---------------------------------------------------------------------------
(* C21 *)

\* A section of the data model: its name is not empty, its label is not
\* empty when present, and when it has children it has at least one, each
\* of them such a section.
RECURSIVE WellFormedSection(_)
WellFormedSection(s) ==
    /\ s.name # << >>
    /\ s.label # None => Get(s.label) # << >>
    /\ s.sections # None =>
           /\ Get(s.sections) # << >>
           /\ \A i \in 1..Len(Get(s.sections)) : WellFormedSection(Get(s.sections)[i])

\* A Menu of the data model: at least one top-level section, all of them
\* well formed.
WellFormedMenu(m) ==
    /\ m.sections # None
    /\ Get(m.sections) # << >>
    /\ \A i \in 1..Len(Get(m.sections)) : WellFormedSection(Get(m.sections)[i])

\* C21: every Menu that build() returns satisfies the data-model
\* invariants (at least one top-level Section, at least one child under
\* every branch, no empty name, no empty label), and the MenuHandler
\* constructor called on it does not fail.
C21_BuiltMenuWellFormed ==
    BuiltMenu =>
        /\ WellFormedMenu(TheMenu)
        /\ last.op = "__init__" => last.result.exc = None

---------------------------------------------------------------------------
(* C22 *)

\* The paths of the sections found under the children sequence sections,
\* each prefixed by prefix: the tree read directly.
RECURSIVE PathsUnder(_, _)
PathsUnder(sections, prefix) ==
    UNION { { Append(prefix, i - 1) }
            \cup (IF sections[i].sections # None
                  THEN PathsUnder(Get(sections[i].sections), Append(prefix, i - 1))
                  ELSE {}) :
            i \in 1..Len(sections) }

\* The path of every section of the menu.
AllPaths(m) == PathsUnder(Get(m.sections), << >>)

\* The paths that finitely many forward() and next() calls lead to from
\* the paths of S.
RECURSIVE ForwardNextClosure(_, _)
ForwardNextClosure(m, S) ==
    LET T == S \cup { ForwardLocation(m, p) : p \in S } \cup { NextLocation(m, p) : p \in S }
    IN  IF T = S THEN S ELSE ForwardNextClosure(m, T)

\* The paths that finitely many back() and previous() calls lead to from
\* the paths of S.
RECURSIVE BackPreviousClosure(_, _)
BackPreviousClosure(m, S) ==
    LET T == S \cup { BackLocation(p) : p \in S } \cup { PreviousLocation(m, p) : p \in S }
    IN  IF T = S THEN S ELSE BackPreviousClosure(m, T)

\* C22: navigation has no trapping state: the forward() and next() calls
\* lead from the initial path [0] to the path of every section of the
\* menu, and from the path the handler is at, whatever calls led there,
\* back() and previous() calls lead to [0] again.
C22_NoTrappingState ==
    /\ ForwardNextClosure(menu, { Append(<< >>, 0) }) = AllPaths(menu)
    /\ Append(<< >>, 0) \in BackPreviousClosure(menu, { current_location })

\* The handler is at the third level of a menu of several top-level
\* sections, on a section other than the first one at the top: a path
\* the forward() and next() calls lead to, and from which back() and
\* previous() lead to [0].
C22_Witness ==
    /\ Len(current_location) = 3
    /\ current_location[1] > 0
    /\ current_location \in ForwardNextClosure(menu, { Append(<< >>, 0) })
    /\ Append(<< >>, 0) \in BackPreviousClosure(menu, { current_location })

====
